---- MODULE Spec2Model ----
(***************************************************************************)
(* Model of drake/core/Core.h: the Vector concept helpers (toEigen, size), *)
(* the CombinedVector pair-wrapper, and the compile-time dispatch of       *)
(* CombinedVectorBuilder / CombinedVectorUtil.                             *)
(*                                                                         *)
(* A vector type constructor is identified by its RowsAtCompileTime (a     *)
(* non-negative int, or Dynamic).  A value of a vector type is the         *)
(* sequence of its coefficients.  Template instantiation is modelled as an *)
(* operation whose result is a type, or "ill-formed" when the compiler     *)
(* rejects it.  Failed Eigen assertions end the program ("abort") in a     *)
(* checked build and are undefined behaviour in an NDEBUG build            *)
(* ("undefined": nothing may be assumed of the object any more).           *)
(***************************************************************************)
EXTENDS Integers, Sequences, FiniteSets, TLC

\* Largest static row count, and largest run-time length of a dynamic vector.
MaxRows == 2
\* Coefficients are drawn from 1..MaxScalar.
MaxScalar == 2

\* Eigen::Dynamic, the sentinel of RowsAtCompileTime.
Dynamic == -1

Scalars == 1..MaxScalar
ScalarTypes == {"double", "AutoDiffScalar"}
RowCounts == {Dynamic} \cup (0..MaxRows)

\* All coefficient sequences of length n.
Coeffs(n) == [1..n -> Scalars]

\* The values of Eigen::Matrix<ScalarType,r,1>.
Vals(r) == IF r = Dynamic THEN UNION {Coeffs(n) : n \in 0..MaxRows} ELSE Coeffs(r)

(***************************************************************************)
(* std::size_t: 64 bits, kept as four 16-bit limbs, least significant      *)
(* first, so that the wrap-around of vec1_rows + vec2_rows is exact.       *)
(***************************************************************************)
LimbBase == 2^16
Limbs == 1..4

\* Conversion of an int n (|n| < 2^16) to std::size_t: n mod 2^64.
ToSizeT(n) ==
  [i \in Limbs |-> IF n >= 0 THEN (IF i = 1 THEN n ELSE 0)
                   ELSE (IF i = 1 THEN LimbBase + n ELSE LimbBase - 1)]

RECURSIVE Carry(_, _, _)
Carry(x, y, i) ==
  IF i = 0 THEN 0 ELSE (x[i] + y[i] + Carry(x, y, i - 1)) \div LimbBase

\* Unsigned 64-bit addition: the carry out of the top limb is dropped.
AddSizeT(x, y) == [i \in Limbs |-> (x[i] + y[i] + Carry(x, y, i - 1)) % LimbBase]

\* Conversion of a std::size_t to Eigen::Index (signed 64 bits), for the
\* values |n| < 2^16 that ToSizeT produces.
ToIndex(s) ==
  IF s[2] = 0 /\ s[3] = 0 /\ s[4] = 0 THEN s[1] ELSE s[1] - LimbBase

(***************************************************************************)
(* Selection of a class template specialization: the partial               *)
(* specializations whose enable_if condition holds match; with none the    *)
(* primary template is used, with exactly one that one, and with more than *)
(* one (none more specialized than the other) the instantiation is         *)
(* ambiguous and the program ill-formed.                                   *)
(***************************************************************************)
SelectSpecialization(matches) ==
  IF matches = {} THEN "primary"
  ELSE IF Cardinality(matches) = 1 THEN CHOOSE m \in matches : TRUE
  ELSE "ambiguous"

\* The partial specializations of CombinedVectorBuilder enabled for
\* Vector1<double>::RowsAtCompileTime = r1, Vector2<double>::... = r2.
BuilderMatches(r1, r2) ==
  (IF r2 = 0 THEN {"Vector2ZeroRow"} ELSE {}) \cup
  (IF r1 = 0 THEN {"Vector1ZeroRow"} ELSE {})

BuilderCase(r1, r2) == SelectSpecialization(BuilderMatches(r1, r2))

\* CombinedVectorBuilder<Vector1,Vector2>::type<S>, for each scalar type S:
\* the template the alias names and the scalar it is instantiated with.
CombinedVectorBuilder(r1, r2) ==
  LET c == BuilderCase(r1, r2) IN
  [S \in ScalarTypes |->
     IF c = "ambiguous" THEN [tmpl |-> "ill-formed", scalar |-> S]
     ELSE IF c = "Vector2ZeroRow" THEN [tmpl |-> "Vector1", scalar |-> S]
     ELSE IF c = "Vector1ZeroRow" THEN [tmpl |-> "Vector2", scalar |-> S]
     ELSE [tmpl |-> "CombinedVector", scalar |-> S]]

\* A wrong Util dispatch: the Vector1 zero-row case is never enabled.
UtilMatchesMutant(r1, r2) ==
  (IF r2 = 0 THEN {"Vector2ZeroRow"} ELSE {})

\* The partial specializations of CombinedVectorUtil enabled for (r1, r2).
UtilMatches(r1, r2) ==
  (IF r2 = 0 THEN {"Vector2ZeroRow"} ELSE {}) \cup
  (IF r1 = 0 THEN {"Vector1ZeroRow"} ELSE {})

UtilCase(r1, r2) == SelectSpecialization(UtilMatches(r1, r2))

\* What each CombinedVectorUtil specialization assumes of the value it is
\* handed: the general one calls vec.first(), so a CombinedVector; the
\* Vector2-zero one returns vec as a Vector1; the Vector1-zero one as a Vector2.
UtilExpects(c) ==
  IF c = "primary" THEN "CombinedVector"
  ELSE IF c = "Vector2ZeroRow" THEN "Vector1"
  ELSE IF c = "Vector1ZeroRow" THEN "Vector2"
  ELSE "ill-formed"

\* Instantiating CombinedVectorUtil<Vector1,Vector2>: the selected case, the
\* template its bodies assume of their argument, and the declared parameter
\* type of first/second (which is also the return type of combine).
CombinedVectorUtil(r1, r2) ==
  LET c == UtilCase(r1, r2) IN
  [case    |-> c,
   expects |-> UtilExpects(c),
   argType |-> IF c = "ambiguous"
               THEN [S \in ScalarTypes |-> [tmpl |-> "ill-formed", scalar |-> S]]
               ELSE CombinedVectorBuilder(r1, r2)]

(***************************************************************************)
(* Outcomes of run-time operations.                                        *)
(***************************************************************************)
Ok(v) == [status |-> "ok", val |-> v]

\* A failed eigen_assert: abort() in a checked build, undefined behaviour
\* under NDEBUG.
AssertFailed == {[status |-> "abort"], [status |-> "undefined"]}

\* The expression does not compile.
IllFormed == [status |-> "ill-formed"]

(***************************************************************************)
(* The Eigen operations Core.h calls.                                      *)
(***************************************************************************)
\* Block(x, startRow, 0, n, 1): its constructor asserts the block lies in x.
BlockOk(x, start, n) == start >= 0 /\ n >= 0 /\ start + n <= Len(x)

\* The coefficients of the block of n rows starting at (0-based) row start.
Block(x, start, n) == [i \in 1..n |-> x[start + i]]

\* A wrong bottomRows: the block starts at row 0.
bottomRowsStartMutant(x, n) == 0

\* x.topRows(n) is Block(x, 0, n).
topRowsStart(x, n) == 0

\* x.bottomRows(n) is Block(x, rows() - n, n).
bottomRowsStart(x, n) == Len(x) - n

\* Constructing or assigning an Eigen::Matrix<S,r,1> from an expression of
\* n rows: a fixed-size matrix asserts that the sizes agree, a dynamic one
\* resizes.
FitsRows(r, n) == r = Dynamic \/ n = r

\* A wrong stacking: the second block is written first.
CommaInitializerMutant(blockA, blockB) ==
  [i \in 1..(Len(blockA) + Len(blockB)) |->
     IF i <= Len(blockB) THEN blockB[i] ELSE blockA[i - Len(blockB)]]

\* x << blockA, blockB: the blocks are written one below the other.
CommaInitializer(blockA, blockB) ==
  [i \in 1..(Len(blockA) + Len(blockB)) |->
     IF i <= Len(blockA) THEN blockA[i] ELSE blockB[i - Len(blockA)]]

(***************************************************************************)
(* class CombinedVector<ScalarType,Vector1,Vector2>                        *)
(***************************************************************************)
vec1_rows(r1) == ToSizeT(r1)
vec2_rows(r2) == ToSizeT(r2)

\* enum { RowsAtCompileTime = vec1_rows + vec2_rows }
RowsAtCompileTime(r1, r2) == AddSizeT(vec1_rows(r1), vec2_rows(r2))

\* RowsAtCompileTime == -1, the -1 converted to the enum's unsigned type.
IsDynamicSentinel(R) == R = ToSizeT(Dynamic)

\* CombinedVector(const Vector1<S>& first, const Vector2<S>& second)
CombinedVectorOf(first, second) == [vec1 |-> first, vec2 |-> second]

\* const Vector1<S>& first() const / const Vector2<S>& second() const
first(c) == c.vec1
second(c) == c.vec2

\* std::size_t size() { return vec1.size()+vec2.size(); }
size(c) == ToSizeT(Len(c.vec1) + Len(c.vec2))

\* The split both the constructor from one dense expression and operator=
\* perform: vec1 from x.topRows(vec1_rows), vec2 from x.bottomRows(vec2_rows).
SplitRows(r1, r2, x) ==
  LET n1 == ToIndex(vec1_rows(r1))
      n2 == ToIndex(vec2_rows(r2))
      s1 == topRowsStart(x, n1)
      s2 == bottomRowsStart(x, n2)
  IN  [ok1 |-> BlockOk(x, s1, n1) /\ FitsRows(r1, n1),
       ok2 |-> BlockOk(x, s2, n2) /\ FitsRows(r2, n2),
       n1 |-> n1, n2 |-> n2, s1 |-> s1, s2 |-> s2]

\* template <typename Derived> CombinedVector(const Eigen::MatrixBase<Derived>& x)
\* The set of outcomes the build can produce.
CombinedVectorFromDense(r1, r2, x) ==
  LET s == SplitRows(r1, r2, x) IN
  IF s.ok1 /\ s.ok2
  THEN {Ok(CombinedVectorOf(Block(x, s.s1, s.n1), Block(x, s.s2, s.n2)))}
  ELSE AssertFailed

\* CombinedVector& operator=(const Eigen::MatrixBase<Derived>& x): vec1 is
\* assigned first, then vec2.
AssignDense(c, r1, r2, x) ==
  LET s == SplitRows(r1, r2, x) IN
  IF ~s.ok1 THEN AssertFailed
  ELSE LET c1 == [c EXCEPT !.vec1 = Block(x, s.s1, s.n1)] IN
       IF ~s.ok2 THEN AssertFailed
       ELSE {Ok([c1 EXCEPT !.vec2 = Block(x, s.s2, s.n2)])}

\* friend toEigen(const CombinedVector&): a matrix x of
\* Vector1<S>::RowsAtCompileTime + Vector2<S>::RowsAtCompileTime rows (an int
\* sum) is filled by x << toEigen(vec1), toEigen(vec2).
toEigenCombined(r1, r2, c) ==
  LET n    == r1 + r2
      rows == IF n = Dynamic THEN 0 ELSE n
  IN  IF n < 0 /\ n # Dynamic THEN {IllFormed}
      ELSE IF Len(c.vec1) + Len(c.vec2) = rows
           THEN {Ok(CommaInitializer(c.vec1, c.vec2))}
           ELSE AssertFailed

(***************************************************************************)
(* Values of the composed type: the template they instantiate, and the     *)
(* object (a CombinedVector, or the coefficients of an Eigen vector).      *)
(***************************************************************************)
Typed(t, v) == [type |-> t, val |-> v]

\* The number of rows a value actually has.
ActualRows(v) ==
  IF v.type = "CombinedVector" THEN Len(v.val.vec1) + Len(v.val.vec2)
  ELSE Len(v.val)

\* toEigen(vec): for an Eigen::Matrix the overload that returns vec, for a
\* CombinedVector its friend.
toEigen(r1, r2, v) ==
  IF v.type = "CombinedVector" THEN toEigenCombined(r1, r2, v.val)
  ELSE {Ok(v.val)}

\* NullVector<S>(): the vector of 0 rows.
NullVector == << >>

\* A wrong first: the Vector2-zero case hands out a null vector.
UtilFirstMutant(case, v) ==
  IF case = "primary" THEN first(v.val) ELSE NullVector

\* CombinedVectorUtil<Vector1,Vector2>::first(vec)
UtilFirst(case, v) ==
  IF case = "primary" THEN first(v.val)
  ELSE IF case = "Vector2ZeroRow" THEN v.val
  ELSE NullVector

\* CombinedVectorUtil<Vector1,Vector2>::second(vec)
UtilSecond(case, v) ==
  IF case = "primary" THEN second(v.val)
  ELSE IF case = "Vector2ZeroRow" THEN NullVector
  ELSE v.val

\* CombinedVectorUtil<Vector1,Vector2>::combine(vec1, vec2)
UtilCombine(case, a, b) ==
  IF case = "primary" THEN Typed("CombinedVector", CombinedVectorOf(a, b))
  ELSE IF case = "Vector2ZeroRow" THEN Typed("Vector1", a)
  ELSE Typed("Vector2", b)

\* A wrong dispatch: the two SizeDispatch bodies are exchanged.
SizeDispatchMutant(enable, staticRows, runtimeSize) ==
  IF enable THEN staticRows ELSE runtimeSize

\* internal::SizeDispatch<VecType,Enable>::eval(vec)
SizeDispatch(enable, staticRows, runtimeSize) ==
  IF enable THEN runtimeSize ELSE staticRows

\* size(vec): SizeDispatch<VecType, VecType::RowsAtCompileTime==-1>::eval(vec).
\* CombinedVector::size() is not const, so calling it on the const reference
\* does not compile.
SizeOf(r1, r2, v) ==
  IF v.type = "CombinedVector"
  THEN LET R == RowsAtCompileTime(r1, r2) IN
       IF IsDynamicSentinel(R) THEN IllFormed
       ELSE Ok(SizeDispatch(FALSE, R, size(v.val)))
  ELSE LET r == IF v.type = "Vector1" THEN r1 ELSE r2 IN
       Ok(SizeDispatch(r = Dynamic, ToSizeT(r), ToSizeT(Len(v.val))))

(***************************************************************************)
(* The state machine: a program over one pair (Vector1, Vector2).          *)
(***************************************************************************)
VARIABLES
  rows1,    \* Vector1<double>::RowsAtCompileTime
  rows2,    \* Vector2<double>::RowsAtCompileTime
  builder,  \* the instantiation of CombinedVectorBuilder<Vector1,Vector2>
  util,     \* the instantiation of CombinedVectorUtil<Vector1,Vector2>
  made,     \* how the current object was made, with the inputs
  cv,       \* the current object: the outcome of the operation that made it
  obs       \* the result of the last read-only call on cv

vars == <<rows1, rows2, builder, util, made, cv, obs>>

Uninstantiated == [tmpl |-> "uninstantiated"]
NoObject == [status |-> "none"]
NoObs == [kind |-> "none"]

\* The dense expressions handed to the split constructor and operator=:
\* around the length the split expects, shorter and longer included.
DenseExprs(r1, r2) ==
  IF r1 # Dynamic /\ r2 # Dynamic
  THEN UNION {Coeffs(n) : n \in {m \in (r1 + r2 - 1)..(r1 + r2 + 1) : m >= 0}}
  ELSE UNION {Coeffs(n) : n \in 0..(MaxRows + 1)}

Init ==
  /\ rows1 \in RowCounts
  /\ rows2 \in RowCounts
  /\ builder = Uninstantiated
  /\ util = Uninstantiated
  /\ made = [by |-> "none"]
  /\ cv = NoObject
  /\ obs = NoObs

\* The program names CombinedVectorBuilder<Vector1,Vector2>.
InstantiateBuilder ==
  /\ builder = Uninstantiated
  /\ builder' = [tmpl |-> "instantiated", type |-> CombinedVectorBuilder(rows1, rows2)]
  /\ UNCHANGED <<rows1, rows2, util, made, cv, obs>>

\* The program names CombinedVectorUtil<Vector1,Vector2>, whose member
\* declarations name the builder's type.
InstantiateUtil ==
  /\ builder # Uninstantiated
  /\ util = Uninstantiated
  /\ util' = [tmpl |-> "instantiated"] @@ CombinedVectorUtil(rows1, rows2)
  /\ UNCHANGED <<rows1, rows2, builder, made, cv, obs>>

\* The translation unit compiled: the run-time calls below can happen.
Compiled ==
  /\ util # Uninstantiated
  /\ util.case # "ambiguous"
  /\ \A S \in ScalarTypes : builder.type[S].tmpl # "ill-formed"

\* The call is well-typed: cv is an object of the type Util's members take.
UtilApplies ==
  /\ Compiled
  /\ cv.status = "ok"
  /\ \A S \in ScalarTypes : cv.val.type = util.argType[S].tmpl
  /\ cv.val.type = util.expects

\* CombinedVectorUtil::combine(a, b)
Combine ==
  /\ Compiled
  /\ \A S \in ScalarTypes : util.argType[S].tmpl = util.expects
  /\ made.by = "none"
  /\ \E a \in Vals(rows1), b \in Vals(rows2) :
       /\ made' = [by |-> "combine", a |-> a, b |-> b]
       /\ cv' = Ok(UtilCombine(util.case, a, b))
  /\ obs' = NoObs
  /\ UNCHANGED <<rows1, rows2, builder, util>>

\* CombinedVector<S,Vector1,Vector2> c(x)
SplitConstruct ==
  /\ Compiled
  /\ made.by = "none"
  /\ \E x \in DenseExprs(rows1, rows2) :
       /\ made' = [by |-> "split", x |-> x]
       /\ \E o \in CombinedVectorFromDense(rows1, rows2, x) :
            cv' = IF o.status = "ok" THEN Ok(Typed("CombinedVector", o.val)) ELSE o
  /\ obs' = NoObs
  /\ UNCHANGED <<rows1, rows2, builder, util>>

\* c = x, on an object made by combine
Assign ==
  /\ cv.status = "ok"
  /\ cv.val.type = "CombinedVector"
  /\ made.by = "combine"
  /\ obs = NoObs
  /\ \E x \in DenseExprs(rows1, rows2) :
       /\ made' = [by |-> "assign", x |-> x]
       /\ \E o \in AssignDense(cv.val.val, rows1, rows2, x) :
            cv' = IF o.status = "ok" THEN Ok(Typed("CombinedVector", o.val)) ELSE o
  /\ obs' = NoObs
  /\ UNCHANGED <<rows1, rows2, builder, util>>

\* CombinedVectorUtil::first(cv) and CombinedVectorUtil::second(cv)
CallFirstSecond ==
  /\ UtilApplies
  /\ obs' = [kind |-> "firstSecond",
             first |-> UtilFirst(util.case, cv.val),
             second |-> UtilSecond(util.case, cv.val)]
  /\ UNCHANGED <<rows1, rows2, builder, util, made, cv>>

\* rt = combine(first(cv), second(cv)), then toEigen of cv and of rt
CallRoundTrip ==
  /\ UtilApplies
  /\ LET rt == UtilCombine(util.case, UtilFirst(util.case, cv.val),
                           UtilSecond(util.case, cv.val))
     IN  \E dc \in toEigen(rows1, rows2, cv.val), drt \in toEigen(rows1, rows2, rt) :
           obs' = [kind |-> "roundTrip", rt |-> rt, denseC |-> dc, denseRT |-> drt]
  /\ UNCHANGED <<rows1, rows2, builder, util, made, cv>>

\* toEigen(cv)
CallToEigen ==
  /\ cv.status = "ok"
  /\ \E d \in toEigen(rows1, rows2, cv.val) :
       obs' = [kind |-> "toEigen", dense |-> d]
  /\ UNCHANGED <<rows1, rows2, builder, util, made, cv>>

\* size(cv), the generic query
CallSize ==
  /\ cv.status = "ok"
  /\ obs' = [kind |-> "size", out |-> SizeOf(rows1, rows2, cv.val)]
  /\ UNCHANGED <<rows1, rows2, builder, util, made, cv>>

\* cv.size() and decltype(cv)::RowsAtCompileTime, of a CombinedVector
CallMemberSize ==
  /\ cv.status = "ok"
  /\ cv.val.type = "CombinedVector"
  /\ obs' = [kind |-> "memberSize",
             size |-> size(cv.val.val),
             RowsAtCompileTime |-> RowsAtCompileTime(rows1, rows2)]
  /\ UNCHANGED <<rows1, rows2, builder, util, made, cv>>

\* The object goes out of scope.
Destroy ==
  /\ made.by # "none"
  /\ made' = [by |-> "none"]
  /\ cv' = NoObject
  /\ obs' = NoObs
  /\ UNCHANGED <<rows1, rows2, builder, util>>

Next ==
  \/ InstantiateBuilder
  \/ InstantiateUtil
  \/ Combine
  \/ SplitConstruct
  \/ Assign
  \/ CallFirstSecond
  \/ CallRoundTrip
  \/ CallToEigen
  \/ CallSize
  \/ CallMemberSize
  \/ Destroy

Spec == Init /\ [][Next]_vars

(***************************************************************************)
(* Properties.                                                             *)
(***************************************************************************)
BuilderInstantiated == builder # Uninstantiated
UtilInstantiated == util # Uninstantiated

\* The dense vector made by stacking a on top of b, entry by entry.
Stacked(d, a, b) ==
  /\ Len(d) = Len(a) + Len(b)
  /\ \A i \in 1..Len(a) : d[i] = a[i]
  /\ \A j \in 1..Len(b) : d[Len(a) + j] = b[j]

\* C1: CombinedVectorBuilder selects its result from the row counts of the
\* double instantiations only: with Vector2 of 0 rows the composed type is, for
\* every scalar type, exactly Vector1; with Vector1 of 0 rows exactly Vector2;
\* with neither of 0 rows the pair-wrapper CombinedVector.
C1_BuilderSelectsByRowCount ==
  BuilderInstantiated =>
    \A S \in ScalarTypes :
      /\ rows2 = 0 => builder.type[S] = [tmpl |-> "Vector1", scalar |-> S]
      /\ rows1 = 0 => builder.type[S] = [tmpl |-> "Vector2", scalar |-> S]
      /\ (rows1 # 0 /\ rows2 # 0) =>
           builder.type[S] = [tmpl |-> "CombinedVector", scalar |-> S]

\* C2: when Vector1 and Vector2 both have 0 rows the builder resolves to one
\* well-defined result, Vector1 (the null type), and CombinedVectorUtil
\* resolves to the same case.
C2_DoubleZeroResolvesToVector1 ==
  (rows1 = 0 /\ rows2 = 0) =>
    /\ BuilderInstantiated =>
         \A S \in ScalarTypes : builder.type[S] = [tmpl |-> "Vector1", scalar |-> S]
    /\ UtilInstantiated => util.case = "Vector2ZeroRow" /\ util.expects = "Vector1"

\* C3: for every pair of row counts CombinedVectorUtil selects the case
\* CombinedVectorBuilder selects, and the type the selected Util bodies work
\* on (the argument of first/second, the result of combine) is the builder's
\* composed type: the two never disagree.
C3_UtilMirrorsBuilder ==
  UtilInstantiated =>
    /\ util.case = BuilderCase(rows1, rows2)
    /\ \A S \in ScalarTypes :
         /\ util.argType[S] = builder.type[S]
         /\ util.expects = builder.type[S].tmpl

\* C3 witness: both instantiated for a null Vector1 and a two-row Vector2,
\* the Util in its Vector1-zero case.
C3_Witness ==
  /\ UtilInstantiated /\ BuilderInstantiated
  /\ rows1 = 0 /\ rows2 = 2
  /\ util.case = "Vector1ZeroRow"

\* C4: for fixed-size Vector1, Vector2 of positive row counts, the value
\* combine(a, b) is a CombinedVector whose RowsAtCompileTime is
\* rows(a) + rows(b) and whose toEigen is a stacked on top of b.
C4_CombineStacks ==
  (made.by = "combine" /\ rows1 > 0 /\ rows2 > 0) =>
    /\ cv.status = "ok" /\ cv.val.type = "CombinedVector"
    /\ obs.kind = "memberSize" =>
         obs.RowsAtCompileTime = ToSizeT(Len(made.a) + Len(made.b))
    /\ obs.kind = "toEigen" =>
         /\ obs.dense.status = "ok"
         /\ Stacked(obs.dense.val, made.a, made.b)

\* C4 witness: toEigen of combine(<<1,2>>, <<2,1>>) has been taken.
C4_Witness ==
  /\ made.by = "combine" /\ rows1 = 2 /\ rows2 = 2
  /\ made.a = <<1, 2>> /\ made.b = <<2, 1>>
  /\ obs.kind = "toEigen"

\* C5: when exactly one of Vector1, Vector2 is the zero-row type, combine
\* returns the non-null operand unchanged, the accessor of the non-null side
\* returns the whole composed value, and the accessor of the null side a
\* vector of size 0.
C5_NullIsIdentity ==
  (made.by = "combine" /\ ((rows1 = 0) # (rows2 = 0))) =>
    /\ cv.status = "ok"
    /\ rows2 = 0 =>
         /\ cv.val = Typed("Vector1", made.a)
         /\ obs.kind = "firstSecond" =>
              obs.first = cv.val.val /\ Len(obs.second) = 0
    /\ rows1 = 0 =>
         /\ cv.val = Typed("Vector2", made.b)
         /\ obs.kind = "firstSecond" =>
              obs.second = cv.val.val /\ Len(obs.first) = 0

\* C5 witness: first and second taken of combine(<<1,2>>, null).
C5_Witness ==
  /\ made.by = "combine" /\ rows1 = 2 /\ rows2 = 0
  /\ made.a = <<1, 2>>
  /\ obs.kind = "firstSecond"

\* C6: for every pair and every composed value c, combine(first(c), second(c))
\* is a value whose dense form equals the dense form of c.
C6_RoundTrip ==
  obs.kind = "roundTrip" =>
    /\ obs.denseC.status = "ok"
    /\ obs.denseRT.status = "ok"
    /\ obs.denseRT.val = obs.denseC.val

\* C7: constructing a CombinedVector from, or assigning to it, one dense
\* expression x of rows(Vector1) + rows(Vector2) entries sets first to the
\* leading rows(Vector1) entries and second to the trailing rows(Vector2)
\* entries, disjoint and covering x, so that toEigen of the result is x;
\* the constructor and the assignment split alike.
C7_SplitLaw ==
  (/\ made.by \in {"split", "assign"}
   /\ rows1 >= 0 /\ rows2 >= 0
   /\ Len(made.x) = rows1 + rows2) =>
    /\ cv.status = "ok"
    /\ first(cv.val.val) = SubSeq(made.x, 1, rows1)
    /\ second(cv.val.val) = SubSeq(made.x, rows1 + 1, Len(made.x))
    /\ first(cv.val.val) \o second(cv.val.val) = made.x
    /\ obs.kind = "toEigen" => obs.dense = Ok(made.x)

\* C7 witness: toEigen taken of an object assigned <<1,2,2>> with a two-row
\* Vector1 and a one-row Vector2.
C7_Witness ==
  /\ made.by = "assign" /\ rows1 = 2 /\ rows2 = 1
  /\ made.x = <<1, 2, 2>>
  /\ obs.kind = "toEigen"

\* C8: split-construction from a dense expression whose length differs from
\* rows(Vector1) + rows(Vector2), shorter or longer, is rejected with an
\* error and never produces a composed vector value.  (A failed assertion of
\* either build counts as the rejection here.)
C8_WrongLengthRejected ==
  (/\ made.by = "split"
   /\ rows1 >= 0 /\ rows2 >= 0
   /\ Len(made.x) # rows1 + rows2) =>
    cv.status # "ok"

\* C9: the run-time size() of a CombinedVector is size(first) + size(second),
\* and whenever its RowsAtCompileTime is not the dynamic sentinel it equals
\* that run-time size(), dynamic sub-vectors included.
C9_SizeMatchesRowsAtCompileTime ==
  obs.kind = "memberSize" =>
    /\ obs.size = ToSizeT(Len(first(cv.val.val)) + Len(second(cv.val.val)))
    /\ ~IsDynamicSentinel(obs.RowsAtCompileTime) => obs.RowsAtCompileTime = obs.size

\* RowsAtCompileTime of the type of the value v, as a std::size_t.
StaticRows(v) ==
  IF v.type = "CombinedVector" THEN RowsAtCompileTime(rows1, rows2)
  ELSE IF v.type = "Vector1" THEN ToSizeT(rows1)
  ELSE ToSizeT(rows2)

\* The Vector concept: RowsAtCompileTime is the number of rows, or Dynamic.
Conforming(v) ==
  IsDynamicSentinel(StaticRows(v)) \/ StaticRows(v) = ToSizeT(ActualRows(v))

====
